---- MODULE Spec2Model ----
(***************************************************************************)
(* Model of credit_rating.py: the Mortgage validator and risk scorer, the  *)
(* batching orchestrator built on ProcessPoolExecutor, and the aggregation *)
(* of per-record scores into a rating label.                               *)
(*                                                                         *)
(* Python values are modelled as tagged records [ty, v, s]: ty is the      *)
(* Python type name, v the numeric value (0 for non-numbers) and s the     *)
(* text (empty for non-strings).  Floats used as inputs are integral       *)
(* valued, so v is an integer for them as well.                            *)
(***************************************************************************)
EXTENDS Integers, Sequences, FiniteSets, TLC

(***************************************************************************)
(* Python values and exceptions                                            *)
(***************************************************************************)
IntV(n) == [ty |-> "int", v |-> n, s |-> ""]

FloatV(n) == [ty |-> "float", v |-> n, s |-> ""]

StrV(x) == [ty |-> "str", v |-> 0, s |-> x]

None == [ty |-> "NoneType", v |-> 0, s |-> ""]

\* An exception object: its class, its message and the message's arguments.
Exc(type, msg, args) == [type |-> type, msg |-> msg, args |-> args]

NoError == Exc("", "", <<>>)

(***************************************************************************)
(* Module-level configuration                                              *)
(***************************************************************************)
ALLOWED_LOAN_TYPE == {"fixed", "adjustable"}

ALLOWED_PROPERTY_TYPE == {"single_family", "condo"}

HIGH_RATING == "AAA"

MEDIUM_RATING == "BBB"

LOW_RATING == "C"

\* Keys of mortgage_schema in insertion order.
SchemaKeys ==
  <<"credit_score", "loan_amount", "property_value", "annual_income",
    "debt_amount", "loan_type", "property_type">>

KeySet == {SchemaKeys[i] : i \in 1..Len(SchemaKeys)}

\* mortgage_schema: the accepted type names of a key, and whether the schema
\* entry is a tuple of types (iterable) or one bare type.
mortgage_schema(key) ==
  CASE key = "credit_score" -> [types |-> {"int"}, tuple |-> FALSE]
    [] key \in {"loan_type", "property_type"} -> [types |-> {"str"}, tuple |-> FALSE]
    [] OTHER -> [types |-> {"int", "float"}, tuple |-> TRUE]

(***************************************************************************)
(* class Mortgage                                                          *)
(***************************************************************************)
\* dict.get(key): the value, or None when the key is absent.
Get(data, key) == IF key \in DOMAIN data THEN data[key] ELSE None

\* Mortgage.__init__, the attribute assignments.
MortgageAttrs(data) == [k \in KeySet |-> Get(data, k)]

\* Variant of missing_attr that reports the first absent key only.
missing_attr_first(data) ==
  LET missing == SelectSeq(SchemaKeys, LAMBDA k : k \notin DOMAIN data)
  IN  IF missing = <<>> THEN <<>> ELSE <<missing[1]>>

\* missing_attr: every schema key absent from the raw mapping, schema order.
missing_attr(data) == SelectSeq(SchemaKeys, LAMBDA k : k \notin DOMAIN data)

\* value in range(300, 851)
InCreditRange(value) ==
  value.ty \in {"int", "float"} /\ value.v >= 300 /\ value.v < 851

\* The checks of one iteration of the loop over schema.items().
KeyCheck(self, key) ==
  LET value == self[key]
      expected == mortgage_schema(key)
  IN  IF value.ty # "NoneType" /\ value.ty \notin expected.types
      THEN IF expected.tuple
           THEN Exc("Exception", "Invalid type for", <<key, "int & float", value.ty>>)
           ELSE Exc("TypeError", "'type' object is not iterable", <<>>)
      ELSE IF key = "credit_score" /\ ~InCreditRange(value)
      THEN Exc("ValueError", "Credit score must be between 300 and 850", <<>>)
      ELSE IF key = "loan_type" /\ ~(value.ty = "str" /\ value.s \in ALLOWED_LOAN_TYPE)
      THEN Exc("Exception", "Loan type must be from these options", <<"fixed", "adjustable">>)
      ELSE IF key = "property_type" /\ ~(value.ty = "str" /\ value.s \in ALLOWED_PROPERTY_TYPE)
      THEN Exc("Exception", "Property type must be from these options", <<"single_family", "condo">>)
      ELSE NoError

RECURSIVE CheckKeysFrom(_, _)
\* The loop over schema.items(), from the i-th key on: the first failure.
CheckKeysFrom(self, i) ==
  IF i > Len(SchemaKeys) THEN NoError
  ELSE LET e == KeyCheck(self, SchemaKeys[i])
       IN  IF e # NoError THEN e ELSE CheckKeysFrom(self, i + 1)

\* Mortgage._validate_values: NoError, or the exception it raises.
validate_values(self, mortgage_data) ==
  IF missing_attr(mortgage_data) # <<>>
  THEN Exc("Exception", "Missing required attributes", missing_attr(mortgage_data))
  ELSE CheckKeysFrom(self, 1)

\* Mortgage(data): the constructed object's attributes and the exception
\* raised by the constructor (NoError when construction succeeds).
Mortgage(data) ==
  [self |-> MortgageAttrs(data),
   exc |-> validate_values(MortgageAttrs(data), data)]

\* Mortgage.extract_ratio.  The float (point_A / point_B) * 100 is kept as
\* the exact fraction num/den * 100.
extract_ratio(point_A, point_B) ==
  IF point_A.ty = "NoneType" \/ point_B.ty = "NoneType"
  THEN [exc |-> Exc("TypeError", "'>' not supported between instances",
                    <<point_A.ty, point_B.ty>>),
        num |-> 0, den |-> 1]
  ELSE IF point_A.v > point_B.v
  THEN [exc |-> Exc("Exception", "Ratio cannot exceed more then 100%", <<>>),
        num |-> 0, den |-> 1]
  ELSE IF point_B.v = 0
  THEN [exc |-> Exc("ZeroDivisionError", "division by zero", <<>>),
        num |-> 0, den |-> 1]
  ELSE [exc |-> NoError, num |-> point_A.v, den |-> point_B.v]

\* ratio > k for the float ratio = (num / den) * 100.
RatioGT(ratio, k) ==
  IF ratio.den > 0 THEN ratio.num * 100 > k * ratio.den
  ELSE ratio.num * 100 < k * ratio.den

\* Variant of LtvDelta with the upper threshold inclusive (ltv >= 90).
LtvDeltaInclusive(ltv) ==
  IF RatioGT(ltv, 90) \/ ltv.num * 100 = 90 * ltv.den THEN 2
  ELSE IF RatioGT(ltv, 80) THEN 1 ELSE 0

\* risk_score += 2 if ltv > 90 else 1 if ltv > 80 else 0
LtvDelta(ltv) == IF RatioGT(ltv, 90) THEN 2 ELSE IF RatioGT(ltv, 80) THEN 1 ELSE 0

\* risk_score += 2 if dti > 50 else 1 if dti > 40 else 0
DtiDelta(dti) == IF RatioGT(dti, 50) THEN 2 ELSE IF RatioGT(dti, 40) THEN 1 ELSE 0

\* if credit_score >= 700: -1 / elif credit_score < 650: +1
CreditDelta(credit_score) ==
  IF credit_score.v >= 700 THEN -1 ELSE IF credit_score.v < 650 THEN 1 ELSE 0

\* risk_score += -1 if loan_type == "fixed" else 1
LoanTypeDelta(loan_type) == IF loan_type.s = "fixed" THEN -1 ELSE 1

\* risk_score += 1 if property_type == "condo" else 0
PropertyTypeDelta(property_type) == IF property_type.s = "condo" THEN 1 ELSE 0

\* Mortgage.compute_risk_score: the exception raised (NoError if none) and
\* the returned score.
compute_risk_score(self) ==
  LET ltv == extract_ratio(self["loan_amount"], self["property_value"])
      dti == extract_ratio(self["debt_amount"], self["annual_income"])
  IN  IF ltv.exc # NoError THEN [exc |-> ltv.exc, value |-> 0]
      ELSE IF dti.exc # NoError THEN [exc |-> dti.exc, value |-> 0]
      ELSE [exc |-> NoError,
            value |-> LtvDelta(ltv) + DtiDelta(dti)
                      + CreditDelta(self["credit_score"])
                      + LoanTypeDelta(self["loan_type"])
                      + PropertyTypeDelta(self["property_type"])]

(***************************************************************************)
(* Batch processing and aggregation                                        *)
(***************************************************************************)
\* data.get("credit_score", 0) as appended to batch_scores.
ScoreEntry(data) ==
  IF "credit_score" \in DOMAIN data THEN data["credit_score"].v ELSE 0

\* One iteration of the loop of process_mortgage_batch on one raw record:
\* the exception raised (NoError if none), the risk appended and the credit
\* score appended.
ProcessRecord(data) ==
  LET mortgage == Mortgage(data)
      score == compute_risk_score(mortgage.self)
  IN  IF mortgage.exc # NoError
      THEN [exc |-> mortgage.exc, risk |-> 0, score |-> 0]
      ELSE IF score.exc # NoError
      THEN [exc |-> score.exc, risk |-> 0, score |-> 0]
      ELSE [exc |-> NoError, risk |-> score.value, score |-> ScoreEntry(data)]

\* Variant of Extend that puts the new items in front.
ExtendFront(list, items) == items \o list

\* list.extend
Extend(list, items) == list \o items

RECURSIVE SumRange(_, _, _)
\* list[lo] + ... + list[hi], by halves.
SumRange(list, lo, hi) ==
  IF lo > hi THEN 0
  ELSE IF lo = hi THEN list[lo]
  ELSE LET mid == (lo + hi) \div 2
       IN  SumRange(list, lo, mid) + SumRange(list, mid + 1, hi)

\* sum(list)
Sum(list) == SumRange(list, 1, Len(list))

\* batch_size = int(len(mortgages) / 10) if len(mortgages) > 1000 else 100
batch_size(n) == IF n > 1000 THEN n \div 10 ELSE 100

\* mortgages[i : i + batch_size] for the j-th value of
\* range(0, len(mortgages), batch_size), j counted from 1.
Slice(list, j, size) ==
  LET lo == (j - 1) * size + 1
      hi == IF j * size < Len(list) THEN j * size ELSE Len(list)
  IN  SubSeq(list, lo, hi)

\* len(range(0, n, size))
RangeLen(n, size) == (n + size - 1) \div size

\* The list `batches` of compute_credit_rating_factors.
Batches(list) ==
  [j \in 1..RangeLen(Len(list), batch_size(Len(list))) |->
     Slice(list, j, batch_size(Len(list)))]

\* workers = max(1, int(multiprocessing.cpu_count() * 0.75))
Workers(cpus) == IF (cpus * 3) \div 4 > 1 THEN (cpus * 3) \div 4 ELSE 1

\* Variant of extract_post_average_risk_score whose first comparison is
\* strict (average_cr_score > 700).
extract_post_average_strict(data, risks) ==
  LET total == Sum(risks)
      n == Len(data)
  IN  IF n = 0
      THEN [exc |-> Exc("ZeroDivisionError", "division by zero", <<>>), value |-> 0]
      ELSE IF Sum(data) > 700 * n THEN [exc |-> NoError, value |-> total - 1]
      ELSE IF Sum(data) < 650 * n THEN [exc |-> NoError, value |-> total + 1]
      ELSE [exc |-> NoError, value |-> total]

\* extract_post_average_risk_score: the exception raised (NoError if none)
\* and the returned total.  average_cr_score = sum(data) / len(data) is
\* compared as the exact fraction.
extract_post_average_risk_score(data, risks) ==
  LET total == Sum(risks)
      n == Len(data)
  IN  IF n = 0
      THEN [exc |-> Exc("ZeroDivisionError", "division by zero", <<>>), value |-> 0]
      ELSE IF Sum(data) >= 700 * n THEN [exc |-> NoError, value |-> total - 1]
      ELSE IF Sum(data) < 650 * n THEN [exc |-> NoError, value |-> total + 1]
      ELSE [exc |-> NoError, value |-> total]

\* Variant of compute_credit_rating whose middle band is range(3, 5).
compute_credit_rating_short(total) ==
  IF total <= 2 THEN HIGH_RATING
  ELSE IF total \in 3..4 THEN MEDIUM_RATING
  ELSE IF total > 5 THEN LOW_RATING
  ELSE ""

\* compute_credit_rating
compute_credit_rating(total) ==
  IF total <= 2 THEN HIGH_RATING
  ELSE IF total \in 3..5 THEN MEDIUM_RATING
  ELSE IF total > 5 THEN LOW_RATING
  ELSE ""

\* Variant of NotMortgages for a caller that does not check the portfolio.
NotMortgagesUnchecked(list) == FALSE

\* `if not mortgages` in calculate_credit_rating
NotMortgages(list) == Len(list) = 0

\* `except Exception as e: raise Exception(e)` in calculate_credit_rating
Reraise(e) == Exc("Exception", e.msg, e.args)

(***************************************************************************)
(* Inputs of the orchestration                                             *)
(***************************************************************************)
\* A raw mortgage mapping with all seven keys.
Raw(cs, loan, value, income, debt, ltype, ptype) ==
  [credit_score |-> cs, loan_amount |-> loan, property_value |-> value,
   annual_income |-> income, debt_amount |-> debt, loan_type |-> ltype,
   property_type |-> ptype]

\* The raw records portfolios are built from: the payloads of
\* test_credit_rating.py, records on the thresholds of the average credit
\* score, and the rejected payloads of the tests.  A portfolio is a sequence
\* of indices into this table.
SampleRecords ==
  << Raw(IntV(750), IntV(200000), IntV(250000), IntV(60000), IntV(20000),
         StrV("fixed"), StrV("single_family")),
     Raw(IntV(680), IntV(150000), IntV(175000), IntV(45000), IntV(10000),
         StrV("adjustable"), StrV("condo")),
     Raw(IntV(600), IntV(450000), IntV(500000), IntV(60000), IntV(35000),
         StrV("adjustable"), StrV("condo")),
     Raw(IntV(680), IntV(300000), IntV(350000), IntV(80000), IntV(35000),
         StrV("adjustable"), StrV("condo")),
     Raw(IntV(700), IntV(450000), IntV(500000), IntV(60000), IntV(30000),
         StrV("adjustable"), StrV("single_family")),
     Raw(IntV(650), IntV(200000), IntV(250000), IntV(50000), IntV(20000),
         StrV("fixed"), StrV("condo")),
     Raw(IntV(649), FloatV(200000), IntV(250000), IntV(50000), IntV(20000),
         StrV("fixed"), StrV("single_family")),
     Raw(IntV(180), IntV(150000), IntV(175000), IntV(45000), IntV(10000),
         StrV("adjustable"), StrV("condo")),
     Raw(IntV(800), IntV(150000), IntV(175000), IntV(45000), IntV(10000),
         StrV("adjustable"), StrV("invalid_type")),
     Raw(IntV(750), IntV(300000), IntV(250000), IntV(60000), IntV(20000),
         StrV("fixed"), StrV("single_family")),
     [credit_score |-> IntV(800), loan_amount |-> IntV(900000),
      property_value |-> IntV(850000), debt_amount |-> IntV(27000),
      property_type |-> StrV("single_family")] >>

RecordIds == 1..Len(SampleRecords)

\* The outcome of process_mortgage_batch's loop body on each sample record.
Outcome == [k \in RecordIds |-> ProcessRecord(SampleRecords[k])]

\* Bounds of the input space.
MaxSmallLen == 2

MaxCpuCount == 3

\* Every portfolio of at most MaxSmallLen records.
SmallPortfolios == UNION {[1..n -> RecordIds] : n \in 0..MaxSmallLen}

\* Portfolio lengths that make two batches, three batches with a short last
\* one, and the len(mortgages) > 1000 branch of the batch size.
LargeSizes == {101, 250, 1010}

\* Records placed into a large portfolio of otherwise equal records: an
\* accepted one, one rejected by validation and one rejected by scoring.
SpecialIds == {3, 8, 10}

\* The positions a special record is placed at: both sides of the first
\* batch boundary and the end of the portfolio.
SpecialPositions(n) == {batch_size(n), batch_size(n) + 1, n}

\* The placements <<p, q, a, b>> of record a at position p and record b at
\* position q of a portfolio of n records.  Portfolios of more than 1000
\* records take one special record (p = q), the others up to two.
Placements(n) ==
  {t \in SpecialPositions(n) \X SpecialPositions(n)
           \X (SpecialIds \cup {1}) \X (SpecialIds \cup {1}) :
     /\ t[1] <= t[2]
     /\ t[1] = t[2] => t[3] = t[4]
     /\ n > 1000 => t[1] = t[2]}

\* The portfolio of n copies of record 1 with the placement t applied.
LargePortfolio(n, t) ==
  [i \in 1..n |-> IF i = t[1] THEN t[3] ELSE IF i = t[2] THEN t[4] ELSE 1]

(***************************************************************************)
(* Inputs of the validation and scoring of one record                      *)
(***************************************************************************)
MaxDefects == 3

\* Well-formed raw records: credit scores on and beside the bounds of the
\* range and of the score bands, loan-to-value ratios of 0, 80, 85, 90, 95,
\* 100 and 105 percent, debt-to-income ratios of 0, 40, 45, 50, 55, 100 and
\* 105 percent, every loan type and property type.
WellFormedRecords ==
  [credit_score : {IntV(300), IntV(649), IntV(650), IntV(699), IntV(700), IntV(850)},
   loan_amount : {IntV(0), IntV(16), FloatV(17), IntV(18), IntV(19), IntV(20), IntV(21)},
   property_value : {IntV(20)},
   annual_income : {IntV(20)},
   debt_amount : {IntV(0), IntV(8), FloatV(9), IntV(10), IntV(11), IntV(20), IntV(21)},
   loan_type : {StrV("fixed"), StrV("adjustable")},
   property_type : {StrV("single_family"), StrV("condo")}]

\* The well-formed records that defects are applied to.
DefectBases ==
  {r \in WellFormedRecords :
     /\ r.credit_score = IntV(700)
     /\ r.loan_amount \in {IntV(0), IntV(18)}
     /\ r.debt_amount \in {IntV(10), IntV(21)}
     /\ r.loan_type = StrV("fixed")
     /\ r.property_type = StrV("condo")}

\* The defective values of a key: null, out of range, of the wrong type.
Defects(key) ==
  CASE key = "credit_score" -> <<None, IntV(299), IntV(851), FloatV(700), StrV("700")>>
    [] key = "loan_amount" -> <<None, IntV(-1), StrV("18")>>
    [] key = "property_value" -> <<None, IntV(0), IntV(-20), StrV("20")>>
    [] key = "annual_income" -> <<None, IntV(0), IntV(-20), StrV("20")>>
    [] key = "debt_amount" -> <<None, IntV(-1), StrV("10")>>
    [] key = "loan_type" -> <<None, StrV("variable"), IntV(1)>>
    [] OTHER -> <<None, StrV("invalid_type"), IntV(1)>>

\* A choice of defects for at most MaxDefects keys: 0 removes the key, i > 0
\* sets it to the i-th defective value.
DefectChoices ==
  UNION { {f \in [D -> 0..5] : \A k \in D : f[k] <= Len(Defects(k))} :
          D \in {S \in SUBSET KeySet : Cardinality(S) \in 1..MaxDefects} }

\* The record `base` with the defects f applied.
Defective(base, f) ==
  [k \in KeySet \ {d \in DOMAIN f : f[d] = 0} |->
     IF k \in DOMAIN f THEN Defects(k)[f[k]] ELSE base[k]]

(***************************************************************************)
(* State                                                                   *)
(***************************************************************************)
VARIABLES
  mortgages,      \* data.get("mortgages"): the portfolio, as record indices
  workers,        \* the local `workers`: the size of the pool, 0 before
  pc,             \* where calculate_credit_rating is
  futures,        \* the list `futures`: one record per submitted batch
  running,        \* indices of the futures a worker process is executing
  fi,             \* position of `for future in futures`
  total_risk,     \* the list total_risk, then the adjusted total
  credit_scores,  \* the list credit_scores
  pending,        \* the exception propagating out of the with block
  exc,            \* the exception calculate_credit_rating raised
  rating,         \* the label calculate_credit_rating returned
  executor,       \* the ProcessPoolExecutor: none, open or shutdown
  raised,         \* history: the futures that failed, in order of failure
  overtaken,      \* history: a batch finished before one submitted earlier
  input_data,           \* the raw mapping given to Mortgage(data)
  step,           \* how far the record has got: constructed, scored, ...
  mortgage_obj,       \* the attributes of the Mortgage object
  record_exc,     \* the exception raised for the record
  risk_score      \* the value compute_risk_score returned

vars ==
  <<mortgages, workers, pc, futures, running, fi, total_risk,
    credit_scores, pending, exc, rating, executor, raised, overtaken,
    input_data, step, mortgage_obj, record_exc, risk_score>>

\* The variables of the validation and scoring of one record.
recvars == <<input_data, step, mortgage_obj, record_exc, risk_score>>

\* The variables of the orchestration.
runvars ==
  <<mortgages, workers, pc, futures, running, fi, total_risk,
    credit_scores, pending, exc, rating, executor, raised, overtaken>>

\* No record is being validated on its own.
RecordIdle ==
  /\ input_data = <<>>
  /\ step = "idle"
  /\ mortgage_obj = <<>>
  /\ record_exc = NoError
  /\ risk_score = 0

\* No portfolio is being rated.
RunIdle ==
  /\ mortgages = <<>>
  /\ workers = 0
  /\ pc = "idle"
  /\ futures = <<>>
  /\ running = {}
  /\ fi = 1
  /\ total_risk = <<>>
  /\ credit_scores = <<>>
  /\ pending = NoError
  /\ exc = NoError
  /\ rating = ""
  /\ executor = "none"
  /\ raised = <<>>
  /\ overtaken = FALSE

\* A future: its state, the batch of its work item (dropped once run) and
\* the result or exception set on it.
NewFuture(batch) ==
  [state |-> "pending", batch |-> batch, exc |-> NoError,
   risks |-> <<>>, scores |-> <<>>]

\* The records of a batch on which the loop body of process_mortgage_batch
\* raises.
FailingIn(batch) == {i \in 1..Len(batch) : Outcome[batch[i]].exc # NoError}

\* Variant of process_mortgage_batch that goes on after a failure and
\* raises the last exception of the batch.
process_mortgage_batch_last(mortgage_batch) ==
  IF FailingIn(mortgage_batch) = {}
  THEN [exc |-> NoError,
        risks |-> [i \in 1..Len(mortgage_batch) |-> Outcome[mortgage_batch[i]].risk],
        scores |-> [i \in 1..Len(mortgage_batch) |-> Outcome[mortgage_batch[i]].score]]
  ELSE LET last == CHOOSE i \in FailingIn(mortgage_batch) :
                     \A j \in FailingIn(mortgage_batch) : i >= j
       IN  [exc |-> Outcome[mortgage_batch[last]].exc,
            risks |-> <<>>, scores |-> <<>>]

\* process_mortgage_batch: the exception raised or the two lists returned.
\* The loop stops at the first record that raises; without one it appends
\* one risk and one credit score per record, in order.
process_mortgage_batch(mortgage_batch) ==
  IF FailingIn(mortgage_batch) = {}
  THEN [exc |-> NoError,
        risks |-> [i \in 1..Len(mortgage_batch) |-> Outcome[mortgage_batch[i]].risk],
        scores |-> [i \in 1..Len(mortgage_batch) |-> Outcome[mortgage_batch[i]].score]]
  ELSE LET first == CHOOSE i \in FailingIn(mortgage_batch) :
                      \A j \in FailingIn(mortgage_batch) : i <= j
       IN  [exc |-> Outcome[mortgage_batch[first]].exc,
            risks |-> <<>>, scores |-> <<>>]

Init ==
  /\ \/ mortgages \in SmallPortfolios
     \/ \E n \in LargeSizes : \E t \in Placements(n) :
          mortgages = LargePortfolio(n, t)
  /\ workers = 0
  /\ pc = "start"
  /\ futures = <<>>
  /\ running = {}
  /\ fi = 1
  /\ total_risk = <<>>
  /\ credit_scores = <<>>
  /\ pending = NoError
  /\ exc = NoError
  /\ rating = ""
  /\ executor = "none"
  /\ raised = <<>>
  /\ overtaken = FALSE
  /\ RecordIdle

(***************************************************************************)
(* The caller: calculate_credit_rating and compute_credit_rating_factors   *)
(***************************************************************************)
\* calculate_credit_rating up to the with statement of
\* compute_credit_rating_factors: the empty check, the batches, the pool
\* sized from the number of CPUs the host reports.
Enter ==
  /\ pc = "start"
  /\ IF NotMortgages(mortgages)
     THEN /\ pc' = "failed"
          /\ exc' = Reraise(Exc("Exception",
                                "No mortgages were provided for computation", <<>>))
          /\ UNCHANGED <<executor, workers>>
     ELSE /\ pc' = IF Len(Batches(mortgages)) = 0 THEN "shutdown" ELSE "submit"
          /\ exc' = exc
          /\ \E cpus \in 1..MaxCpuCount : workers' = Workers(cpus)
          /\ executor' = "open"
  /\ UNCHANGED <<recvars, mortgages, futures, running, fi, total_risk,
                 credit_scores, pending, rating, raised, overtaken>>

\* futures.append(executor.submit(process_mortgage_batch, batch))
Submit ==
  /\ pc = "submit"
  /\ futures' = Append(futures, NewFuture(Batches(mortgages)[Len(futures) + 1]))
  /\ pc' = IF Len(futures') = Len(Batches(mortgages)) THEN "collect" ELSE "submit"
  /\ UNCHANGED <<recvars, mortgages, workers, running, fi, total_risk,
                 credit_scores, pending, exc, rating, executor, raised, overtaken>>

\* Variant of ResultRaises for a caller that skips failed batches.
ResultNeverRaises(future) == FALSE

\* future.result() raises the exception set on the future.
ResultRaises(future) == future.exc # NoError

\* One iteration of `for future in futures`: future.result() returns once
\* the future is finished, or raises the exception set on it.
Collect ==
  /\ pc = "collect"
  /\ futures[fi].state = "finished"
  /\ IF ResultRaises(futures[fi])
     THEN /\ pending' = futures[fi].exc
          /\ pc' = "shutdown"
          /\ UNCHANGED <<fi, total_risk, credit_scores>>
     ELSE /\ total_risk' = Extend(total_risk, futures[fi].risks)
          /\ credit_scores' = Extend(credit_scores, futures[fi].scores)
          /\ fi' = fi + 1
          /\ pc' = IF fi = Len(futures) THEN "shutdown" ELSE "collect"
          /\ UNCHANGED pending
  /\ UNCHANGED <<recvars, mortgages, workers, futures, running, exc, rating,
                 executor, raised, overtaken>>

\* Leaving the with block: executor.shutdown(wait=True) returns when every
\* submitted batch has run.  Then the pending exception reaches the except
\* clause of calculate_credit_rating, or the two lists are returned.
Shutdown ==
  /\ pc = "shutdown"
  /\ \A b \in 1..Len(futures) : futures[b].state = "finished"
  /\ IF pending # NoError
     THEN /\ pc' = "failed"
          /\ exc' = Reraise(pending)
     ELSE /\ pc' = "aggregate"
          /\ exc' = exc
  /\ executor' = "shutdown"
  /\ UNCHANGED <<recvars, mortgages, workers, futures, running, fi, total_risk,
                 credit_scores, pending, rating, raised, overtaken>>

\* total_risk = extract_post_average_risk_score(...), compute_credit_rating
\* and the return.
Aggregate ==
  /\ pc = "aggregate"
  /\ LET total == extract_post_average_risk_score(credit_scores, total_risk)
     IN  IF total.exc # NoError
         THEN /\ pc' = "failed"
              /\ exc' = Reraise(total.exc)
              /\ UNCHANGED <<total_risk, rating>>
         ELSE /\ pc' = "done"
              /\ total_risk' = total.value
              /\ rating' = compute_credit_rating(total.value)
              /\ exc' = exc
  /\ UNCHANGED <<recvars, mortgages, workers, futures, running, fi,
                 credit_scores, pending, executor, raised, overtaken>>

(***************************************************************************)
(* The worker processes of the pool                                        *)
(***************************************************************************)
\* The work items no worker has taken yet.
PendingItems == {b \in 1..Len(futures) : futures[b].state = "pending"}

\* The work item a free worker takes: the oldest one not yet taken.
NextPending == CHOOSE b \in PendingItems : \A c \in PendingItems : b <= c

\* A free worker process takes the next work item from the call queue.
StartBatch ==
  /\ PendingItems # {}
  /\ Cardinality(running) < workers
  /\ running' = running \cup {NextPending}
  /\ futures' = [futures EXCEPT ![NextPending].state = "running"]
  /\ UNCHANGED <<recvars, mortgages, workers, pc, fi, total_risk, credit_scores,
                 pending, exc, rating, executor, raised, overtaken>>

\* A worker process ends process_mortgage_batch on its batch; the result or
\* the exception is set on the future.
FinishBatch(b) ==
  /\ b \in running
  /\ LET r == process_mortgage_batch(futures[b].batch)
     IN  /\ futures' = [futures EXCEPT ![b] =
                          [state |-> "finished", batch |-> <<>>, exc |-> r.exc,
                           risks |-> r.risks, scores |-> r.scores]]
         /\ raised' = IF r.exc # NoError THEN Append(raised, b) ELSE raised
  /\ running' = running \ {b}
  /\ overtaken' = (overtaken \/ \E c \in running : c < b)
  /\ UNCHANGED <<recvars, mortgages, workers, pc, fi, total_risk, credit_scores,
                 pending, exc, rating, executor>>

Next ==
  \/ Enter
  \/ Submit
  \/ Collect
  \/ Shutdown
  \/ Aggregate
  \/ StartBatch
  \/ \E b \in running : FinishBatch(b)

Spec == Init /\ [][Next]_vars

(***************************************************************************)
(* Validation and scoring of one record on its own                         *)
(***************************************************************************)
RecordInit ==
  /\ \/ input_data \in WellFormedRecords
     \/ \E b \in DefectBases : \E f \in DefectChoices :
          input_data = Defective(b, f)
  /\ step = "raw"
  /\ mortgage_obj = <<>>
  /\ record_exc = NoError
  /\ risk_score = 0
  /\ RunIdle

\* mortgage = Mortgage(data)
Construct ==
  /\ step = "raw"
  /\ mortgage_obj' = Mortgage(input_data).self
  /\ record_exc' = Mortgage(input_data).exc
  /\ step' = IF Mortgage(input_data).exc = NoError THEN "constructed" ELSE "rejected"
  /\ UNCHANGED <<runvars, input_data, risk_score>>

\* mortgage.compute_risk_score()
Score ==
  /\ step = "constructed"
  /\ record_exc' = compute_risk_score(mortgage_obj).exc
  /\ risk_score' = compute_risk_score(mortgage_obj).value
  /\ step' = IF compute_risk_score(mortgage_obj).exc = NoError THEN "scored" ELSE "unscored"
  /\ UNCHANGED <<runvars, input_data, mortgage_obj>>

RecordNext ==
  \/ Construct
  \/ Score

RecordSpec == RecordInit /\ [][RecordNext]_vars

(***************************************************************************)
(* Properties of the orchestration (specification Spec)                    *)
(***************************************************************************)
\* The sample records that fail validation or scoring.
FailingIds == {k \in RecordIds : Outcome[k].exc # NoError}

\* The positions of the portfolio's records that fail validation or scoring.
FailingRecords == {i \in 1..Len(mortgages) : mortgages[i] \in FailingIds}

AnyFails == FailingRecords # {}

\* The first failing record in portfolio order.
FirstFailing == CHOOSE i \in FailingRecords : \A j \in FailingRecords : i <= j

\* The batch, counted from 1 in submission order, that holds record i.
BatchOf(i) == ((i - 1) \div batch_size(Len(mortgages))) + 1

\* The sum of the risk scores of the portfolio's records.
RiskSum == Sum([i \in 1..Len(mortgages) |-> Outcome[mortgages[i]].risk])

\* The sum of the credit scores of the portfolio's records.
CreditSum ==
  Sum([i \in 1..Len(mortgages) |-> SampleRecords[mortgages[i]].credit_score.v])

\* The rating band of an adjusted total, as the bands are specified.
Band(t) == IF t <= 2 THEN "AAA" ELSE IF t <= 5 THEN "BBB" ELSE "C"

\* C1: when compute_credit_rating_factors returns, the risk scores and the
\* credit scores have one entry per record of the portfolio, the i-th entry
\* being the score and the credit score of the i-th record, whatever the
\* number of workers, the batch size and the order in which batches finish;
\* and a non-empty portfolio whose records all pass never ends in failure.
C1_OrderPreserved ==
  /\ pc = "aggregate" =>
       /\ Len(total_risk) = Len(mortgages)
       /\ Len(credit_scores) = Len(mortgages)
       /\ \A i \in 1..Len(mortgages) :
            /\ total_risk[i] = Outcome[mortgages[i]].risk
            /\ credit_scores[i] = SampleRecords[mortgages[i]].credit_score.v
  /\ pc = "failed" => (Len(mortgages) = 0 \/ AnyFails)

\* Three batches were run, one of them finished before a batch submitted
\* earlier, and the returned risk scores are not all equal.
C1_Witness ==
  /\ pc = "aggregate"
  /\ Len(futures) >= 3
  /\ workers >= 2
  /\ overtaken
  /\ \E i, j \in 1..Len(total_risk) : total_risk[i] # total_risk[j]

\* C2: when a record of the portfolio fails validation or scoring, no
\* rating is ever returned: aggregation is never reached, the label stays
\* unset, and the call can only stop in failure.
C2_FailFast ==
  \/ /\ rating = ""
     /\ pc \notin {"aggregate", "done"}
     /\ pc = "failed" \/ ENABLED Next
  \/ ~AnyFails

\* The call failed although a batch had succeeded and its results had been
\* collected.
C2_Witness ==
  /\ AnyFails
  /\ pc = "failed"
  /\ rating = ""
  /\ total_risk # <<>>
  /\ \E b \in 1..Len(futures) :
       futures[b].state = "finished" /\ futures[b].exc = NoError

\* C3 as stated: the error surfaced is that of the batch that failed first
\* during execution.
C3_EarliestFailureSurfaced ==
  (pc = "failed" /\ raised # <<>>) =>
    /\ fi = raised[1]
    /\ exc = Reraise(futures[raised[1]].exc)

\* C3 as amended: the error surfaced is that of the failing batch submitted
\* first, which is the error of the first failing record in portfolio order,
\* whichever batch failed first during execution; it ends the collection of
\* results after the batches before it, and no rating is produced.
C3_FirstSubmittedFailureSurfaced ==
  (pc = "failed" /\ AnyFails) =>
    /\ fi = BatchOf(FirstFailing)
    /\ pending = Outcome[mortgages[FirstFailing]].exc
    /\ exc = Reraise(Outcome[mortgages[FirstFailing]].exc)
    /\ Len(total_risk) = (fi - 1) * batch_size(Len(mortgages))
    /\ rating = ""

\* Two batches failed, and the one whose error was surfaced failed second.
C3_Witness ==
  /\ pc = "failed"
  /\ Len(raised) = 2
  /\ raised[2] = fi
  /\ raised[1] > fi
  /\ futures[raised[1]].exc # futures[raised[2]].exc

\* C4: the label returned for an adjusted total t is AAA exactly when
\* t <= 2, BBB exactly when 3 <= t <= 5 and C exactly when t > 5, and never
\* the empty fallback.
C4_RatingBands ==
  pc = "done" =>
    /\ rating = "AAA" <=> total_risk <= 2
    /\ rating = "BBB" <=> (3 <= total_risk /\ total_risk <= 5)
    /\ rating = "C" <=> total_risk > 5
    /\ rating # ""

\* A total on the upper edge of the middle band was rated.
C4_Witness == pc = "done" /\ total_risk = 5 /\ rating = "BBB"

\* C8: for an empty portfolio the call fails at once with the
\* empty-portfolio error: no pool is created, no batch is submitted or run;
\* and aggregation is never reached with an empty list of credit scores.
C8_EmptyPortfolio ==
  /\ Len(mortgages) = 0 =>
       /\ pc \in {"start", "failed"}
       /\ executor = "none"
       /\ workers = 0
       /\ futures = <<>>
       /\ running = {}
       /\ raised = <<>>
       /\ pc = "failed" =>
            exc = Exc("Exception", "No mortgages were provided for computation", <<>>)
  /\ pc = "aggregate" => credit_scores # <<>>

\* The call on an empty portfolio has failed.
C8_Witness == Len(mortgages) = 0 /\ pc = "failed"

\* C9: for a non-empty portfolio whose records all pass, the call never
\* fails, and the rating returned is the band of the sum of the records'
\* risk scores adjusted once by the average credit score of the portfolio:
\* minus 1 if it is >= 700, plus 1 if it is < 650.
C9_AggregateRating ==
  LET n == Len(mortgages)
      adjusted == IF CreditSum >= 700 * n THEN RiskSum - 1
                  ELSE IF CreditSum < 650 * n THEN RiskSum + 1
                  ELSE RiskSum
  IN  /\ pc = "done" => (total_risk = adjusted /\ rating = Band(adjusted))
      /\ (pc = "failed" \/ exc # NoError) => (n = 0 \/ AnyFails)

\* A portfolio split into several batches was rated, and the adjustment for
\* an average credit score of at least 700 was applied once to the sum.
C9_Witness ==
  /\ pc = "done"
  /\ Len(futures) >= 2
  /\ total_risk = RiskSum - 1

\* A portfolio whose average credit score is exactly 700 was rated with the
\* adjustment of minus 1.
C9_BoundaryReached ==
  /\ pc = "done"
  /\ CreditSum = 700 * Len(mortgages)
  /\ total_risk = RiskSum - 1

(***************************************************************************)
(* Properties of one record (specification RecordSpec)                     *)
(***************************************************************************)
IsNumber(value) == value.ty \in {"int", "float"}

\* The raw record d conforms to the MortgageRecord data model.
Conforms(d) ==
  /\ DOMAIN d = KeySet
  /\ d.credit_score.ty = "int"
  /\ d.credit_score.v >= 300 /\ d.credit_score.v <= 850
  /\ IsNumber(d.loan_amount) /\ d.loan_amount.v >= 0
  /\ IsNumber(d.debt_amount) /\ d.debt_amount.v >= 0
  /\ IsNumber(d.property_value) /\ d.property_value.v > 0
  /\ IsNumber(d.annual_income) /\ d.annual_income.v > 0
  /\ d.loan_type.ty = "str" /\ d.loan_type.s \in {"fixed", "adjustable"}
  /\ d.property_type.ty = "str" /\ d.property_type.s \in {"single_family", "condo"}

\* The delta of a ratio a / b * 100 (b > 0) with thresholds hi and lo.
RatioPoints(a, b, lo, hi) ==
  IF a * 100 > hi * b THEN 2
  ELSE IF a * 100 > lo * b /\ a * 100 <= hi * b THEN 1
  ELSE 0

\* The sum of the five deltas of a conforming record, as specified.
FiveDeltas(d) ==
  RatioPoints(d.loan_amount.v, d.property_value.v, 80, 90)
  + RatioPoints(d.debt_amount.v, d.annual_income.v, 40, 50)
  + (IF d.credit_score.v >= 700 THEN -1 ELSE IF d.credit_score.v < 650 THEN 1 ELSE 0)
  + (IF d.loan_type.s = "fixed" THEN -1 ELSE 1)
  + (IF d.property_type.s = "condo" THEN 1 ELSE 0)

\* C5: a record that conforms to the data model, with loan_amount <=
\* property_value and debt_amount <= annual_income, is constructed and
\* scored without failure, and its score is the sum of the five deltas.
C5_RiskScore ==
  ( /\ Conforms(input_data)
    /\ input_data.loan_amount.v <= input_data.property_value.v
    /\ input_data.debt_amount.v <= input_data.annual_income.v ) =>
      /\ step \notin {"rejected", "unscored"}
      /\ step = "scored" => risk_score = FiveDeltas(input_data)

\* A record with a loan-to-value ratio of exactly 90 and a debt-to-income
\* ratio of exactly 50 was scored, each ratio contributing 1.
C5_Witness ==
  /\ step = "scored"
  /\ Conforms(input_data)
  /\ input_data.loan_amount.v * 100 = 90 * input_data.property_value.v
  /\ input_data.debt_amount.v * 100 = 50 * input_data.annual_income.v
  /\ input_data.credit_score.v = 650
  /\ input_data.loan_type.s = "adjustable"
  /\ input_data.property_type.s = "single_family"
  /\ risk_score = 3

\* The exception of extract_ratio for a ratio above 100%.
RatioOverflow == Exc("Exception", "Ratio cannot exceed more then 100%", <<>>)

\* a > b for two numbers.
Exceeds(a, b) == IsNumber(a) /\ IsNumber(b) /\ a.v > b.v

\* C6: scoring a validated record with loan_amount > property_value, or
\* with debt_amount > annual_income, fails with the ratio-overflow error and
\* returns no score; a record with loan_amount = property_value is not
\* rejected for its loan-to-value ratio.
C6_RatioOverflow ==
  step \in {"scored", "unscored"} =>
    /\ ( \/ Exceeds(mortgage_obj.loan_amount, mortgage_obj.property_value)
         \/ Exceeds(mortgage_obj.debt_amount, mortgage_obj.annual_income) ) =>
           (step = "unscored" /\ record_exc = RatioOverflow)
    /\ ( /\ IsNumber(mortgage_obj.loan_amount)
         /\ IsNumber(mortgage_obj.property_value)
         /\ mortgage_obj.loan_amount.v = mortgage_obj.property_value.v
         /\ ~Exceeds(mortgage_obj.debt_amount, mortgage_obj.annual_income) ) =>
           record_exc # RatioOverflow

\* The keys of the schema absent from the raw record.
AbsentKeys == KeySet \ DOMAIN input_data

\* C7: constructing a Mortgage from a raw record that lacks required keys
\* fails with the missing-field error, which names every absent key once,
\* whatever the values of the keys that are present.
C7_MissingFields ==
  (AbsentKeys # {} /\ step \notin {"idle", "raw"}) =>
    /\ step = "rejected"
    /\ record_exc.type = "Exception"
    /\ record_exc.msg = "Missing required attributes"
    /\ Len(record_exc.args) = Cardinality(AbsentKeys)
    /\ {record_exc.args[i] : i \in 1..Len(record_exc.args)} = AbsentKeys

\* A record that lacks two keys and has a credit score out of range was
\* rejected.
C7_Witness ==
  /\ step = "rejected"
  /\ Cardinality(AbsentKeys) = 2
  /\ "credit_score" \in DOMAIN input_data
  /\ input_data.credit_score = IntV(299)
  /\ Len(record_exc.args) = 2

\* C10: whenever construction succeeds the raw record conforms to the data
\* model, so that no record that violates it is ever scored.
C10_ConstructedConforms ==
  step \in {"constructed", "scored", "unscored"} => Conforms(input_data)

====
